---- MODULE Spec2Model ----
(***************************************************************************)
(* TypoTamer: the editor state machine of src/src/editor.rs.               *)
(*                                                                         *)
(* The Editor struct is the variable `editor`; Editor::run, process_key    *)
(* and prompt are the actions; move_cursor, scroll and save are operators  *)
(* on an Editor value.  Document and Row (src/document.rs, src/row.rs) and *)
(* Terminal are not part of the available sources: they are modelled from  *)
(* sections 4.1, 4.2 and 6 of the specification.                           *)
(***************************************************************************)
EXTENDS Integers, Sequences, FiniteSets, TLC

\* ------------------------------------------------------------------ bounds
QUIT_TIMES == 3

MaxFile == 3                   \* characters of the document, line ends included
MaxPrompt == 1                 \* characters typed into a prompt

DocChars == {"a", "b"}         \* printable characters typed into the document
WIDE == "E"                    \* stands for a character of two UTF-8 bytes, such as e-acute
PromptChars == {"a", WIDE}     \* printable characters typed into a prompt
NL == "\n"                     \* Key::Char('\n'), the Enter key
TAB == "\t"                    \* a control character that is not Enter

\* --------------------------------------------------------------- utilities
Min(S) == CHOOSE m \in S : \A n \in S : m <= n

None == [some |-> FALSE, v |-> <<>>]
Some(v) == [some |-> TRUE, v |-> v]

Position(x, y) == [x |-> x, y |-> y]

\* usize::saturating_sub
saturating_sub(a, b) == IF a > b THEN a - b ELSE 0

\* format!("{}", n) for the one-digit values the quit counter takes
FormatNumber(n) == << <<"0", "1", "2", "3", "4", "5", "6", "7", "8", "9">>[n + 1] >>

\* ---------------------------------------------------------------- String
\* A String is modelled as its characters; its length in bytes is what
\* String::len and String::truncate count.
Utf8Len(c) == IF c = WIDE THEN 2 ELSE 1

RECURSIVE ByteLen(_)
ByteLen(s) == IF s = <<>> THEN 0 ELSE Utf8Len(Head(s)) + ByteLen(Tail(s))

is_char_boundary(s, n) == \E k \in 0 .. Len(s) : ByteLen(SubSeq(s, 1, k)) = n

\* String::truncate(new_len) panics when new_len is inside a character
truncate_panics(s, new_len) == new_len <= ByteLen(s) /\ ~is_char_boundary(s, new_len)

truncate(s, new_len) ==
    IF new_len >= ByteLen(s) THEN s
    ELSE SubSeq(s, 1, CHOOSE k \in 0 .. Len(s) : ByteLen(SubSeq(s, 1, k)) = new_len)

\* A status text: a fixed part, a formatted argument, a fixed tail.
StatusMsg(pre, arg, post) == [pre |-> pre, arg |-> arg, post |-> post]

\* ------------------------------------------------------------------- keys
Key(k) == [k |-> k, c |-> ""]
Char(c) == [k |-> "Char", c |-> c]

MoveKeys == {Key("Up"), Key("Down"), Key("Left"), Key("Right"),
             Key("End"), Key("Home"), Key("PageDown"), Key("PageUp")}

\* --------------------------------------------------------------------- Row
RowLen(row) == Len(row)

RowInsert(row, at, c) ==
    IF at >= Len(row) THEN Append(row, c)
    ELSE SubSeq(row, 1, at) \o <<c>> \o SubSeq(row, at + 1, Len(row))

RowDelete(row, at) ==
    IF at >= Len(row) THEN row
    ELSE SubSeq(row, 1, at) \o SubSeq(row, at + 2, Len(row))

RowAppend(row, other) == row \o other

\* split(at): <<head kept in self, tail returned as the new row>>
RowSplit(row, at) ==
    LET i == IF at > Len(row) THEN Len(row) ELSE at
    IN  << SubSeq(row, 1, i), SubSeq(row, i + 1, Len(row)) >>

\* find(query, start): character index of the first match at or after start
RowFind(row, query, start) ==
    LET hits == {i \in start .. (Len(row) - Len(query)) :
                    SubSeq(row, i + 1, i + Len(query)) = query}
    IN  IF hits = {} THEN None ELSE Some(Min(hits))

\* ---------------------------------------------------------------- Document
DocDefault == [rows |-> <<>>, file_name |-> None, dirty |-> FALSE]

DocLen(doc) == Len(doc.rows)

DocRow(doc, y) == IF y < Len(doc.rows) THEN Some(doc.rows[y + 1]) ELSE None

ReplaceRow(rows, y, row) == [rows EXCEPT ![y + 1] = row]

InsertRowAt(rows, y, row) == SubSeq(rows, 1, y) \o <<row>> \o SubSeq(rows, y + 1, Len(rows))

RemoveRowAt(rows, y) == SubSeq(rows, 1, y) \o SubSeq(rows, y + 2, Len(rows))

DocInsertNewline(doc, at) ==
    IF at.y >= Len(doc.rows)
    THEN [doc EXCEPT !.rows = Append(doc.rows, <<>>), !.dirty = TRUE]
    ELSE LET parts == RowSplit(doc.rows[at.y + 1], at.x)
         IN  [doc EXCEPT !.rows = InsertRowAt(ReplaceRow(doc.rows, at.y, parts[1]),
                                              at.y + 1, parts[2]),
                         !.dirty = TRUE]

DocInsert(doc, at, c) ==
    IF c = NL THEN DocInsertNewline(doc, at)
    ELSE IF at.y >= Len(doc.rows)
    THEN [doc EXCEPT !.rows = Append(doc.rows, RowInsert(<<>>, 0, c)), !.dirty = TRUE]
    ELSE [doc EXCEPT !.rows = ReplaceRow(doc.rows, at.y,
                                         RowInsert(doc.rows[at.y + 1], at.x, c)),
                     !.dirty = TRUE]

DocDelete(doc, at) ==
    LET len == Len(doc.rows)
    IN  IF at.y >= len THEN doc
        ELSE IF at.x >= Len(doc.rows[at.y + 1])
        THEN IF at.y + 1 < len
             THEN [doc EXCEPT !.rows = RemoveRowAt(
                                  ReplaceRow(doc.rows, at.y,
                                             RowAppend(doc.rows[at.y + 1], doc.rows[at.y + 2])),
                                  at.y + 1),
                              !.dirty = TRUE]
             ELSE doc
        ELSE [doc EXCEPT !.rows = ReplaceRow(doc.rows, at.y,
                                             RowDelete(doc.rows[at.y + 1], at.x)),
                         !.dirty = TRUE]

\* find(query): the first row, in order, that contains query
DocFind(doc, query) ==
    LET ys == {y \in 0 .. (Len(doc.rows) - 1) : RowFind(doc.rows[y + 1], query, 0).some}
    IN  IF ys = {} THEN None
        ELSE Some(Position(RowFind(doc.rows[Min(ys) + 1], query, 0).v, Min(ys)))

\* what save() writes: every row followed by one line terminator
RECURSIVE FileContent(_)
FileContent(rows) ==
    IF rows = <<>> THEN <<>>
    ELSE Head(rows) \o <<NL>> \o FileContent(Tail(rows))

\* save(): fails when no file name is set or the write fails
DocSaveOk(doc, write_ok) == doc.file_name.some /\ write_ok

DocSave(doc, write_ok) ==
    IF DocSaveOk(doc, write_ok) THEN [doc EXCEPT !.dirty = FALSE] ELSE doc

InBounds(doc) == Len(FileContent(doc.rows)) <= MaxFile

\* ------------------------------------------------------------------ state
VARIABLES
    editor,        \* the Editor struct
    pc,            \* where Editor::run / Editor::prompt stands
    prompt_kind,   \* which caller's prompt is open: "save", "search" or "none"
    result,        \* prompt's accumulated string
    written,       \* what the last step handed to the file system, if anything
    farewell,      \* number of farewell frames refresh_screen has drawn
    hist           \* the last keys of the main loop, each with cursor, rows and status before it

vars == <<editor, pc, prompt_kind, result, written, farewell, hist>>

\* hist.log holds the last hist.len keys process_key has read
NoHist == [len |-> 0, log |-> <<>>]
Record(h, key, self) ==
    LET all == Append(h.log, [key |-> key, cursor |-> self.cursor_position,
                              rows |-> self.document.rows, status |-> self.status_msg])
    IN  [h EXCEPT !.log = IF Len(all) > h.len THEN SubSeq(all, Len(all) - h.len + 1, Len(all))
                          ELSE all]

\* Terminal::size(): set when the terminal is opened, the same for the session
TermSizes == {[width |-> 1, height |-> 2], [width |-> 2, height |-> 1]}

\* the files Document::open can be asked to read, as their lines
Texts(max) == UNION {[1 .. n -> DocChars] : n \in 0 .. max}
Files == {rows \in UNION {[1 .. n -> Texts(MaxFile - n)] : n \in 0 .. MaxFile} :
            Len(FileContent(rows)) <= MaxFile}
Path == <<"a">>

DocOpen(rows) == [rows |-> rows, file_name |-> Some(Path), dirty |-> FALSE]

\* Editor::default(): no argument, a file that opens, or one that does not
Starts ==
    {[document |-> DocDefault, status |-> StatusMsg("HELP: Ctrl-Q = quit", <<>>, "")],
     [document |-> DocDefault, status |-> StatusMsg("ERR: Could not open file: ", Path, "")]}
    \cup {[document |-> DocOpen(rows), status |-> StatusMsg("HELP: Ctrl-Q = quit", <<>>, "")] :
            rows \in Files}

InitWith(len) ==
    /\ \E size \in TermSizes, start \in Starts :
         editor = [shld_quit |-> FALSE,
                   terminal |-> size,
                   cursor_position |-> Position(0, 0),
                   document |-> start.document,
                   offset |-> Position(0, 0),
                   status_msg |-> start.status,
                   quit_times |-> QUIT_TIMES]
    /\ pc = "refresh"
    /\ prompt_kind = "none"
    /\ result = <<>>
    /\ written = None
    /\ farewell = 0
    /\ hist = [NoHist EXCEPT !.len = len]

Init == InitWith(0)

\* ------------------------------------------------------- Editor operators
\* scroll as it would be without the saturating_add(1)
scroll_one_short(self) ==
    LET x == self.cursor_position.x
        y == self.cursor_position.y
        width == self.terminal.width
        height == self.terminal.height
        off == self.offset
        oy == IF y < off.y THEN y
              ELSE IF y >= off.y + height THEN saturating_sub(y, height)
              ELSE off.y
        ox == IF x < off.x THEN x
              ELSE IF x >= off.x + width THEN saturating_sub(x, width)
              ELSE off.x
    IN  [self EXCEPT !.offset = Position(ox, oy)]

scroll(self) ==
    LET x == self.cursor_position.x
        y == self.cursor_position.y
        width == self.terminal.width
        height == self.terminal.height
        off == self.offset
        oy == IF y < off.y THEN y
              ELSE IF y >= off.y + height THEN saturating_sub(y, height) + 1
              ELSE off.y
        ox == IF x < off.x THEN x
              ELSE IF x >= off.x + width THEN saturating_sub(x, width) + 1
              ELSE off.x
    IN  [self EXCEPT !.offset = Position(ox, oy)]

\* character count of row y, 0 past the last row
row_width(self, y) ==
    IF DocRow(self.document, y).some THEN RowLen(DocRow(self.document, y).v) ELSE 0

\* the Left arm as it would be if the wrap went to column 0 of the previous row
move_left_to_column_0(self) ==
    LET x == self.cursor_position.x
        y == self.cursor_position.y
    IN  IF x > 0 THEN Position(x - 1, y)
        ELSE IF y > 0 THEN Position(0, y - 1)
        ELSE Position(x, y)

\* the Left arm of move_cursor
move_left(self) ==
    LET x == self.cursor_position.x
        y == self.cursor_position.y
    IN  IF x > 0 THEN Position(x - 1, y)
        ELSE IF y > 0 THEN Position(row_width(self, y - 1), y - 1)
        ELSE Position(x, y)

\* the Right arm of move_cursor
move_right(self) ==
    LET x == self.cursor_position.x
        y == self.cursor_position.y
    IN  IF x < row_width(self, y) THEN Position(x + 1, y)
        ELSE IF y < DocLen(self.document) THEN Position(0, y + 1)
        ELSE Position(x, y)

\* move_cursor as it would be without the final clamp of x
clamp_x_missing(self, pos) == pos

\* the end of move_cursor: x is clamped to the width of the new row
clamp_x(self, pos) ==
    LET width == row_width(self, pos.y)
    IN  Position(IF pos.x > width THEN width ELSE pos.x, pos.y)

move_cursor(self, key) ==
    LET terminal_height == self.terminal.height
        y == self.cursor_position.y
        x == self.cursor_position.x
        height == DocLen(self.document)
        width == row_width(self, y)
        moved ==
            CASE key.k = "Up" -> Position(x, saturating_sub(y, 1))
              [] key.k = "Down" -> IF y < height THEN Position(x, y + 1) ELSE Position(x, y)
              [] key.k = "Left" -> move_left(self)
              [] key.k = "Right" -> move_right(self)
              [] key.k = "PageUp" -> IF y > terminal_height
                                     THEN Position(x, y - terminal_height)
                                     ELSE Position(x, 0)
              [] key.k = "PageDown" -> IF y + terminal_height < height
                                       THEN Position(x, y + terminal_height)
                                       ELSE Position(x, height)
              [] key.k = "Home" -> Position(0, y)
              [] key.k = "End" -> Position(width, y)
              [] OTHER -> Position(x, y)
    IN  [self EXCEPT !.cursor_position = clamp_x(self, moved)]

\* draw_status_bar: the file name cut to FileNameShown bytes, then the whole
\* line (the name, then ASCII text) cut to the terminal width
FileNameShown == 20

draw_status_bar_panics(self) ==
    LET name == self.document.file_name
        shown == truncate(name.v, FileNameShown)
    IN  /\ name.some
        /\ \/ truncate_panics(name.v, FileNameShown)
           \/ /\ self.terminal.width < ByteLen(shown)
              /\ truncate_panics(shown, self.terminal.width)

\* draw_msg_bar, while the message is younger than 5 seconds: the text cut to
\* the terminal width; only the formatted argument can hold wide characters
draw_msg_bar_panics(self) ==
    LET msg == self.status_msg
        at == self.terminal.width - Len(msg.pre)
    IN  /\ at > 0
        /\ at < ByteLen(msg.arg)
        /\ truncate_panics(msg.arg, at)

\* on-screen cursor that refresh_screen hands to the terminal
ScreenCursor(self) ==
    Position(saturating_sub(self.cursor_position.x, self.offset.x),
             saturating_sub(self.cursor_position.y, self.offset.y))

\* save as it would be without the return after "Save aborted."
save_without_return(self, new_name, write_ok) ==
    LET named == IF self.document.file_name.some THEN self
                 ELSE [self EXCEPT !.document.file_name = new_name]
    IN  IF DocSaveOk(named.document, write_ok)
        THEN [editor |-> [named EXCEPT
                            !.document = DocSave(named.document, write_ok),
                            !.status_msg = StatusMsg("File saved successfully.", <<>>, "")],
              written |-> Some(FileContent(named.document.rows))]
        ELSE [editor |-> [named EXCEPT
                            !.status_msg = StatusMsg("Error writing file!", <<>>, "")],
              written |-> None]

\* save as it would be if a successful save reset quit_times
save_replenishes(self, new_name, write_ok) ==
    IF ~self.document.file_name.some /\ ~new_name.some
    THEN [editor |-> [self EXCEPT !.status_msg = StatusMsg("Save aborted.", <<>>, "")],
          written |-> None]
    ELSE LET named == IF self.document.file_name.some THEN self
                      ELSE [self EXCEPT !.document.file_name = new_name]
         IN  IF DocSaveOk(named.document, write_ok)
             THEN [editor |-> [named EXCEPT
                                 !.document = DocSave(named.document, write_ok),
                                 !.quit_times = QUIT_TIMES,
                                 !.status_msg = StatusMsg("File saved successfully.", <<>>, "")],
                   written |-> Some(FileContent(named.document.rows))]
             ELSE [editor |-> [named EXCEPT
                                 !.status_msg = StatusMsg("Error writing file!", <<>>, "")],
                   written |-> None]

\* Editor::save once its prompt (if it opened one) has returned new_name.
\* The result is the editor and what Document::save wrote (None: no write).
save(self, new_name, write_ok) ==
    IF ~self.document.file_name.some /\ ~new_name.some
    THEN [editor |-> [self EXCEPT !.status_msg = StatusMsg("Save aborted.", <<>>, "")],
          written |-> None]
    ELSE LET named == IF self.document.file_name.some THEN self
                      ELSE [self EXCEPT !.document.file_name = new_name]
         IN  IF DocSaveOk(named.document, write_ok)
             THEN [editor |-> [named EXCEPT
                                 !.document = DocSave(named.document, write_ok),
                                 !.status_msg = StatusMsg("File saved successfully.", <<>>, "")],
                   written |-> Some(FileContent(named.document.rows))]
             ELSE [editor |-> [named EXCEPT
                                 !.status_msg = StatusMsg("Error writing file!", <<>>, "")],
                   written |-> None]

\* the closure handed to prompt by the Ctrl-F arm
\* the callback as it would be if a query without a match sent the cursor
\* back to the start of the document
search_callback_resets(self, query) ==
    LET position == DocFind(self.document, query)
    IN  IF position.some
        THEN scroll([self EXCEPT !.cursor_position = position.v])
        ELSE scroll([self EXCEPT !.cursor_position = Position(0, 0)])

search_callback(self, query) ==
    LET position == DocFind(self.document, query)
    IN  IF position.some
        THEN scroll([self EXCEPT !.cursor_position = position.v])
        ELSE self

\* the Ctrl-F arm as it would be without the else branch of the final find
search_silent(self, query) ==
    IF query.some /\ DocFind(self.document, query.v).some
    THEN scroll([self EXCEPT !.cursor_position = DocFind(self.document, query.v).v])
    ELSE self

\* the Ctrl-F arm once its prompt has returned query
search(self, query) ==
    IF query.some
    THEN LET position == DocFind(self.document, query.v)
         IN  IF position.some
             THEN scroll([self EXCEPT !.cursor_position = position.v])
             ELSE [self EXCEPT !.status_msg = StatusMsg("Search for '", query.v, "' failed")]
    ELSE self

\* the warning condition as it would be with quit_times > 1
quit_warns_until_one(self) == self.quit_times > 1 /\ self.document.dirty

\* the warning condition as it would be without the is_dirty() test
quit_warns_clean_too(self) == self.quit_times > 0

\* the Ctrl-Q arm: TRUE when it takes the early return of the warning path
quit_warns(self) == self.quit_times > 0 /\ self.document.dirty

\* the Ctrl-Q arm as it would be with the counter taken down before the
\* warning is formatted
quit_shows_decremented(self) ==
    IF quit_warns(self)
    THEN [self EXCEPT
            !.status_msg = StatusMsg("WARNING!!! File has unsaved changes. Press Ctrl-Q ",
                                     FormatNumber(self.quit_times - 1), " more times to quit."),
            !.quit_times = self.quit_times - 1]
    ELSE [self EXCEPT !.shld_quit = TRUE]

quit(self) ==
    IF quit_warns(self)
    THEN [self EXCEPT
            !.status_msg = StatusMsg("WARNING!!! File has unsaved changes. Press Ctrl-Q ",
                                     FormatNumber(self.quit_times), " more times to quit."),
            !.quit_times = self.quit_times - 1]
    ELSE [self EXCEPT !.shld_quit = TRUE]

\* the Delete arm of process_key
delete_key(self) ==
    [self EXCEPT !.document = DocDelete(self.document, self.cursor_position)]

\* the Char arm as it would be without move_cursor(Key::Right)
char_key_stays(self, c) ==
    [self EXCEPT !.document = DocInsert(self.document, self.cursor_position, c)]

\* the Char arm of process_key
char_key(self, c) ==
    move_cursor([self EXCEPT !.document = DocInsert(self.document, self.cursor_position, c)],
                Key("Right"))

\* the Backspace arm as it would be with delete before move_cursor(Key::Left)
backspace_key_deletes_first(self) ==
    IF self.cursor_position.x > 0 \/ self.cursor_position.y > 0
    THEN move_cursor([self EXCEPT !.document = DocDelete(self.document, self.cursor_position)],
                     Key("Left"))
    ELSE self

\* the Backspace arm as it would be without the call of Document::delete
backspace_key_moves_only(self) ==
    IF self.cursor_position.x > 0 \/ self.cursor_position.y > 0
    THEN move_cursor(self, Key("Left"))
    ELSE self

\* the Backspace arm of process_key
backspace_key(self) ==
    IF self.cursor_position.x > 0 \/ self.cursor_position.y > 0
    THEN LET moved == move_cursor(self, Key("Left"))
         IN  [moved EXCEPT !.document = DocDelete(moved.document, moved.cursor_position)]
    ELSE self

\* process_key for the keys it handles without opening a prompt
process_key(self, key) ==
    IF key.k = "CtrlQ" /\ quit_warns(self) THEN quit(self)
    ELSE scroll(CASE key.k = "CtrlQ" -> quit(self)
                  [] key.k = "Delete" -> delete_key(self)
                  [] key.k = "Char" -> char_key(self, key.c)
                  [] key.k = "Backspace" -> backspace_key(self)
                  [] key \in MoveKeys -> move_cursor(self, key)
                  [] OTHER -> self)

\* the Backspace arm of prompt: result.truncate(result.len().saturating_sub(1))
prompt_backspace_panics(s) == truncate_panics(s, saturating_sub(ByteLen(s), 1))

prompt_backspace(s) == truncate(s, saturating_sub(ByteLen(s), 1))

is_control(c) == c \in {NL, TAB}

prompt_push(s, c) == IF is_control(c) THEN s ELSE Append(s, c)

prompt_label(kind) == IF kind = "save" THEN "Save as: " ELSE "Search: "

\* what prompt returns on a normal exit
prompt_value(s) == IF s = <<>> THEN None ELSE Some(s)

\* prompt's caller once prompt has returned ret: the rest of save or of the
\* Ctrl-F arm, then process_key's closing scroll
resume(self, kind, ret, write_ok) ==
    IF kind = "save"
    THEN LET r == save(self, ret, write_ok)
         IN  [editor |-> scroll(r.editor), written |-> r.written]
    ELSE [editor |-> scroll(search(self, ret)), written |-> None]

\* ----------------------------------------------------------------- actions
\* Editor::run: refresh_screen succeeds, then the quit check
RefreshScreen ==
    /\ pc = "refresh"
    /\ editor.shld_quit \/ ~draw_status_bar_panics(editor)
    /\ IF editor.shld_quit
       THEN farewell' = farewell + 1 /\ pc' = "done"
       ELSE farewell' = farewell /\ pc' = "read"
    /\ written' = None
    /\ UNCHANGED <<editor, prompt_kind, result, hist>>

\* refresh_screen panics in a String::truncate of the status or message bar
RefreshPanics ==
    /\ pc = "refresh"
    /\ ~editor.shld_quit
    /\ draw_status_bar_panics(editor) \/ draw_msg_bar_panics(editor)
    /\ pc' = "panicked"
    /\ written' = None
    /\ UNCHANGED <<editor, prompt_kind, result, farewell, hist>>

\* Editor::run: refresh_screen or read_key returns an error: die
Die ==
    /\ pc \in {"refresh", "read"}
    /\ pc' = "died"
    /\ written' = None
    /\ UNCHANGED <<editor, prompt_kind, result, farewell, hist>>

\* process_key's read_key, with the key noted where keys are recorded
ReadKey(key) == hist' = Record(hist, key, editor)

\* process_key from read_key to its return, for a key that opens no prompt
Handled(key) ==
    /\ ReadKey(key)
    /\ editor' = process_key(editor, key)
    /\ pc' = "refresh"
    /\ written' = None
    /\ UNCHANGED <<prompt_kind, result, farewell>>

KeyCtrlQ ==
    /\ pc = "read"
    /\ Handled(Key("CtrlQ"))

KeyDelete ==
    /\ pc = "read"
    /\ Handled(Key("Delete"))

KeyChar ==
    /\ pc = "read"
    /\ \E c \in DocChars \cup {NL} :
        /\ InBounds(DocInsert(editor.document, editor.cursor_position, c))
        /\ Handled(Char(c))

KeyBackspace ==
    /\ pc = "read"
    /\ Handled(Key("Backspace"))

KeyMove ==
    /\ pc = "read"
    /\ \E key \in MoveKeys : Handled(key)

KeyOther ==
    /\ pc = "read"
    /\ \E key \in {Key("Esc"), Key("Insert")} : Handled(key)

\* the top of prompt's loop: status_msg = format!("{}{}", prompt, result)
prompt_status(self, kind, s) ==
    [self EXCEPT !.status_msg = StatusMsg(prompt_label(kind), s, "")]

\* prompt is entered: result is empty and the first status line is set
OpenPrompt(kind) ==
    /\ pc' = "prompt_refresh"
    /\ prompt_kind' = kind
    /\ result' = <<>>
    /\ editor' = prompt_status(editor, kind, <<>>)
    /\ written' = None
    /\ UNCHANGED farewell

KeyCtrlS ==
    /\ pc = "read"
    /\ ReadKey(Key("CtrlS"))
    /\ IF editor.document.file_name.some
       THEN \E write_ok \in BOOLEAN :
              LET r == save(editor, None, write_ok)
              IN  /\ editor' = scroll(r.editor)
                  /\ written' = r.written
                  /\ pc' = "refresh"
                  /\ UNCHANGED <<prompt_kind, result, farewell>>
       ELSE OpenPrompt("save")

KeyCtrlF ==
    /\ pc = "read"
    /\ ReadKey(Key("CtrlF"))
    /\ OpenPrompt("search")

\* prompt: refresh_screen draws the frame with the status line just set
PromptRefresh ==
    /\ pc = "prompt_refresh"
    /\ ~draw_status_bar_panics(editor) /\ ~draw_msg_bar_panics(editor)
    /\ pc' = "prompt_read"
    /\ written' = None
    /\ UNCHANGED <<editor, prompt_kind, result, farewell, hist>>

\* prompt: a String::truncate panics, in the frame or in the Backspace arm
PromptPanics ==
    /\ \/ /\ pc = "prompt_refresh"
          /\ draw_status_bar_panics(editor) \/ draw_msg_bar_panics(editor)
       \/ /\ pc = "prompt_read"
          /\ prompt_backspace_panics(result)
    /\ pc' = "panicked"
    /\ written' = None
    /\ UNCHANGED <<editor, prompt_kind, result, farewell, hist>>

Return(self, ret, write_ok) ==
    LET r == resume(self, prompt_kind, ret, write_ok)
    IN  /\ editor' = r.editor
        /\ written' = r.written
        /\ pc' = "refresh"
        /\ prompt_kind' = "none"
        /\ result' = <<>>
        /\ UNCHANGED <<farewell, hist>>

\* prompt: refresh_screen or read_key returns an error; the caller's
\* unwrap_or(None) turns it into "no input"
PromptIoError ==
    /\ pc \in {"prompt_refresh", "prompt_read"}
    /\ \E write_ok \in BOOLEAN : Return(editor, None, write_ok)

PromptKeys == {Key("Backspace"), Char(TAB), Key("CtrlQ"), Key("CtrlS"), Key("CtrlF"),
               Key("Delete"), Key("Insert")} \cup MoveKeys \cup {Char(c) : c \in PromptChars}

prompt_step(s, key) ==
    CASE key.k = "Backspace" -> prompt_backspace(s)
      [] key.k = "Char" -> prompt_push(s, key.c)
      [] OTHER -> s

\* prompt: a key that keeps the loop going, then the callback, then the
\* status line of the next turn of the loop
PromptKeyWith(key) ==
    /\ key.k = "Backspace" => ~prompt_backspace_panics(result)
    /\ Len(prompt_step(result, key)) <= MaxPrompt
    /\ result' = prompt_step(result, key)
    /\ editor' = prompt_status(IF prompt_kind = "search"
                               THEN search_callback(editor, prompt_step(result, key))
                               ELSE editor,
                               prompt_kind, prompt_step(result, key))
    /\ pc' = "prompt_refresh"
    /\ written' = None
    /\ UNCHANGED <<prompt_kind, farewell, hist>>

PromptKey ==
    /\ pc = "prompt_read"
    /\ \E key \in PromptKeys : PromptKeyWith(key)

\* prompt: Enter or Esc leaves the loop
PromptExitWith(key, write_ok) ==
    Return([editor EXCEPT !.status_msg = StatusMsg("", <<>>, "")],
           prompt_value(IF key.k = "Esc" THEN <<>> ELSE result), write_ok)

PromptExit ==
    /\ pc = "prompt_read"
    /\ \E key \in {Char(NL), Key("Esc")}, write_ok \in BOOLEAN :
         PromptExitWith(key, write_ok)

Next ==
    \/ RefreshScreen
    \/ RefreshPanics
    \/ Die
    \/ KeyCtrlQ
    \/ KeyCtrlS
    \/ KeyCtrlF
    \/ KeyDelete
    \/ KeyChar
    \/ KeyBackspace
    \/ KeyMove
    \/ KeyOther
    \/ PromptRefresh
    \/ PromptPanics
    \/ PromptIoError
    \/ PromptKey
    \/ PromptExit

Spec == Init /\ [][Next]_vars

\* The whole editor on one terminal, of one column and two rows: the quit
\* flag, the quit counter and save do not depend on the size of the window.
InitNarrow == InitWith(0) /\ editor.terminal = [width |-> 1, height |-> 2]

SpecNarrow == InitNarrow /\ [][Next]_vars

\* The editing and cursor keys alone, with the last two keys recorded.
InitEdit == InitWith(2)

NextEdit ==
    \/ RefreshScreen
    \/ KeyDelete
    \/ KeyChar
    \/ KeyBackspace
    \/ KeyMove

SpecEdit == InitEdit /\ [][NextEdit]_vars

\* Typing and saving alone, with every key since the start recorded.
InitType == InitWith(MaxFile + 1)

NextType ==
    \/ RefreshScreen
    \/ RefreshPanics
    \/ KeyChar
    \/ KeyCtrlS
    \/ PromptRefresh
    \/ PromptPanics
    \/ PromptIoError
    \/ PromptKey
    \/ PromptExit

SpecType == InitType /\ [][NextType]_vars

\* Ctrl-Q between edits, with the last QUIT_TIMES + 1 keys recorded.
InitQuit == InitWith(QUIT_TIMES + 1)

NextQuit ==
    \/ RefreshScreen
    \/ KeyCtrlQ
    \/ KeyDelete
    \/ KeyChar

SpecQuit == InitQuit /\ [][NextQuit]_vars

\* Moving and searching alone, with the last key of the main loop recorded:
\* while a Ctrl-F prompt is open that key is Ctrl-F, and the cursor noted
\* with it is the cursor the search started from.
InitSearch == InitWith(1)

NextSearch ==
    \/ RefreshScreen
    \/ KeyMove
    \/ KeyCtrlF
    \/ PromptRefresh
    \/ PromptPanics
    \/ PromptIoError
    \/ PromptKey
    \/ PromptExit

SpecSearch == InitSearch /\ [][NextSearch]_vars

\* ------------------------------------------------------------------ claims
Dirty == editor.document.dirty
Warning(n) == StatusMsg("WARNING!!! File has unsaved changes. Press Ctrl-Q ",
                        FormatNumber(n), " more times to quit.")

\* C1 (as stated): on a dirty document with the counter at QUIT_TIMES, the
\* first and the second Ctrl-Q leave shld_quit false and take one off the
\* counter, and the third Ctrl-Q (the one pressed with the counter at
\* QUIT_TIMES - 2) sets shld_quit.
C1_ThirdPressQuits ==
    [][(KeyCtrlQ /\ Dirty) =>
          /\ editor.quit_times \in {QUIT_TIMES, QUIT_TIMES - 1} =>
               ~editor'.shld_quit /\ editor'.quit_times = editor.quit_times - 1
          /\ editor.quit_times = QUIT_TIMES - 2 => editor'.shld_quit]_vars

\* C1 (amended): on a dirty document with the counter at QUIT_TIMES, the
\* first three presses of Ctrl-Q each leave shld_quit false and take one off
\* the counter (3 -> 2 -> 1 -> 0), and the fourth press sets shld_quit.
C1_FourthPressQuits ==
    [][(KeyCtrlQ /\ Dirty) =>
          /\ editor.quit_times \in {QUIT_TIMES, QUIT_TIMES - 1, QUIT_TIMES - 2} =>
               ~editor'.shld_quit /\ editor'.quit_times = editor.quit_times - 1
          /\ editor.quit_times = QUIT_TIMES - 3 =>
               editor'.shld_quit /\ editor'.quit_times = editor.quit_times]_vars

\* the fourth press has been made: quitting, still dirty, counter used up
C1_Witness ==
    editor.shld_quit /\ Dirty /\ editor.quit_times = QUIT_TIMES - 3
    /\ editor.status_msg = Warning(1)

\* C2: shld_quit goes from false to true only in a Ctrl-Q step taken with a
\* clean document or a counter of 0; a Ctrl-Q on a clean document sets it at
\* once whatever the counter; a Ctrl-Q on a dirty document with counter > 0
\* leaves shld_quit false and the document and the cursor as they were.
C2_QuitOnlyByCtrlQ ==
    [][/\ (~editor.shld_quit /\ editor'.shld_quit) =>
            (KeyCtrlQ /\ (~Dirty \/ editor.quit_times = 0))
       /\ (KeyCtrlQ /\ ~Dirty) => editor'.shld_quit
       /\ (KeyCtrlQ /\ Dirty /\ editor.quit_times > 0) =>
            /\ ~editor'.shld_quit
            /\ editor'.document = editor.document
            /\ editor'.cursor_position = editor.cursor_position]_vars

\* a clean document quits on the first press although the counter is part used
C2_Witness ==
    editor.shld_quit /\ ~Dirty /\ editor.quit_times \in 1 .. (QUIT_TIMES - 1)

\* C3: once shld_quit is set the loop is at its refresh, draws one farewell
\* frame and is done, and no key is read; while shld_quit is false the loop
\* is left only through die, the fatal I/O error.
C3_QuittingIsTerminal ==
    /\ editor.shld_quit => pc \in {"refresh", "done", "died"}
    /\ pc = "done" => editor.shld_quit /\ farewell = 1
    /\ pc # "done" => farewell = 0
    /\ (pc \in {"done", "died", "panicked"} /\ ~editor.shld_quit) => pc = "died"

\* C4: the quit counter stays within 0 .. QUIT_TIMES; a Ctrl-Q on a dirty
\* document with counter > 0 takes exactly one off it, and every other step
\* (every other key, a save that succeeds included) leaves it unchanged.
C4_CounterNeverReplenished ==
    [][/\ editor'.quit_times \in 0 .. QUIT_TIMES
       /\ IF KeyCtrlQ /\ Dirty /\ editor.quit_times > 0
          THEN editor'.quit_times = editor.quit_times - 1
          ELSE editor'.quit_times = editor.quit_times]_vars

\* a save has just succeeded and the counter is still part used
C4_Witness ==
    /\ written # None
    /\ editor.status_msg = StatusMsg("File saved successfully.", <<>>, "")
    /\ editor.quit_times < QUIT_TIMES

\* C5: at every render, of the main loop and of a prompt, the cursor is
\* inside the window the offset opens on the document, and so the on-screen
\* cursor is inside the terminal grid.
InWindow(self) ==
    /\ self.offset.y <= self.cursor_position.y
    /\ self.cursor_position.y < self.offset.y + self.terminal.height
    /\ self.offset.x <= self.cursor_position.x
    /\ self.cursor_position.x < self.offset.x + self.terminal.width

C5_CursorInWindow ==
    pc \in {"refresh", "prompt_refresh"} =>
        /\ InWindow(editor)
        /\ ScreenCursor(editor).x < editor.terminal.width
        /\ ScreenCursor(editor).y < editor.terminal.height

\* the frame after a Ctrl-Q warning (the path that skips scroll), scrolled
C5_Witness ==
    /\ pc = "refresh"
    /\ \E n \in 1 .. QUIT_TIMES : editor.status_msg = Warning(n)
    /\ editor.offset.x > 0 /\ editor.offset.y > 0

\* C6: the cursor is a position of the document: at most one row past the
\* last row, and at most at the end of its row (column 0 past the last row).
C6_CursorValid ==
    /\ editor.cursor_position.y <= DocLen(editor.document)
    /\ editor.cursor_position.x <= row_width(editor, editor.cursor_position.y)

\* the cursor stands at the end of a row that lies under a longer row
C6_Witness ==
    /\ editor.cursor_position.y > 0
    /\ editor.cursor_position.y < DocLen(editor.document)
    /\ editor.cursor_position.x = row_width(editor, editor.cursor_position.y)
    /\ row_width(editor, editor.cursor_position.y - 1) > editor.cursor_position.x

\* C7: a Right that moved the cursor, followed by Left, puts the cursor back
\* where it was; Right at the append position and Left at (0, 0) leave it.
LastKey == hist.log[Len(hist.log)]

C7_RightLeftInverse ==
    /\ (/\ Len(hist.log) = 2
        /\ hist.log[1].key = Key("Right")
        /\ hist.log[2].key = Key("Left")
        /\ hist.log[2].cursor # hist.log[1].cursor)
       => editor.cursor_position = hist.log[1].cursor
    /\ (/\ Len(hist.log) >= 1
        /\ \/ LastKey.key = Key("Right") /\ LastKey.cursor = Position(0, Len(LastKey.rows))
           \/ LastKey.key = Key("Left") /\ LastKey.cursor = Position(0, 0))
       => editor.cursor_position = LastKey.cursor

\* Right wrapped from the end of a row that is not empty to the next row,
\* and Left has brought the cursor back
C7_Witness ==
    /\ Len(hist.log) = 2
    /\ hist.log[1].key = Key("Right")
    /\ hist.log[2].key = Key("Left")
    /\ hist.log[1].cursor.x > 0
    /\ hist.log[2].cursor = Position(0, hist.log[1].cursor.y + 1)
    /\ editor.cursor_position = hist.log[1].cursor

\* C8: Ctrl-S without a file name, the prompt left by Esc or by Enter on an
\* empty input: nothing is written, the name stays unset, rows and dirty flag
\* are unchanged, and the status becomes "Save aborted.".
C8_SaveAborted ==
    [][(/\ pc = "prompt_read"
        /\ prompt_kind = "save"
        /\ \E write_ok \in BOOLEAN :
              \/ PromptExitWith(Key("Esc"), write_ok)
              \/ result = <<>> /\ PromptExitWith(Char(NL), write_ok))
       => /\ written' = None
          /\ ~editor'.document.file_name.some
          /\ editor'.document.rows = editor.document.rows
          /\ editor'.document.dirty = editor.document.dirty
          /\ editor'.status_msg = StatusMsg("Save aborted.", <<>>, "")]_vars

C8_Witness ==
    /\ pc = "refresh"
    /\ editor.status_msg = StatusMsg("Save aborted.", <<>>, "")
    /\ Dirty
    /\ ~editor.document.file_name.some

\* C9: from an empty unnamed document, n >= 1 characters other than newline,
\* then Ctrl-S, then a name and Enter, the write succeeding: one row holding
\* the typed characters in order, cursor at (n, 0), the name set, not dirty,
\* and the row plus one line terminator written.
Typed == [i \in 1 .. (Len(hist.log) - 1) |-> hist.log[i].key.c]

C9_TypeThenSaveAs ==
    [][(/\ pc = "prompt_read"
        /\ prompt_kind = "save"
        /\ result # <<>>
        /\ PromptExitWith(Char(NL), TRUE)
        /\ Len(hist.log) >= 2
        /\ hist.log[1].rows = <<>>
        /\ hist.log[Len(hist.log)].key = Key("CtrlS")
        /\ \A i \in 1 .. (Len(hist.log) - 1) :
              hist.log[i].key.k = "Char" /\ hist.log[i].key.c # NL)
       => /\ editor'.document.rows = <<Typed>>
          /\ editor'.cursor_position = Position(Len(Typed), 0)
          /\ editor'.document.file_name = Some(result)
          /\ ~editor'.document.dirty
          /\ written' = Some(Typed \o <<NL>>)]_vars

\* "ab" typed into the empty document and saved under a name
C9_Witness ==
    /\ written = Some(<<"a", "b", NL>>)
    /\ Len(hist.log) = 3
    /\ hist.log[1].rows = <<>>
    /\ hist.log[3].key = Key("CtrlS")
    /\ editor.document.file_name.some

\* C10 (as stated): at every valid cursor position, the append position and
\* the empty document included, a character other than newline followed by
\* Backspace leaves rows and cursor as they were, and so does Document.insert
\* followed by Document.delete at the same position.
InsertThenDelete(doc, at, c) == DocDelete(DocInsert(doc, at, c), at)

C10_InsertDeleteEverywhere ==
    /\ (/\ Len(hist.log) = 2
        /\ hist.log[1].key.k = "Char" /\ hist.log[1].key.c # NL
        /\ hist.log[2].key = Key("Backspace"))
       => /\ editor.document.rows = hist.log[1].rows
          /\ editor.cursor_position = hist.log[1].cursor
    /\ \A c \in DocChars :
          InsertThenDelete(editor.document, editor.cursor_position, c).rows
              = editor.document.rows

\* C10 (amended): the same at every valid cursor position on a row of the
\* document (cursor.y < document.len()).
C10_InsertDeleteOnARow ==
    /\ (/\ Len(hist.log) = 2
        /\ hist.log[1].key.k = "Char" /\ hist.log[1].key.c # NL
        /\ hist.log[2].key = Key("Backspace")
        /\ hist.log[1].cursor.y < Len(hist.log[1].rows))
       => /\ editor.document.rows = hist.log[1].rows
          /\ editor.cursor_position = hist.log[1].cursor
    /\ \A c \in DocChars :
          editor.cursor_position.y < DocLen(editor.document) =>
              InsertThenDelete(editor.document, editor.cursor_position, c).rows
                  = editor.document.rows

\* a character typed in front of a character of a row and removed again
C10_Witness ==
    /\ Len(hist.log) = 2
    /\ hist.log[1].key.k = "Char" /\ hist.log[1].key.c # NL
    /\ hist.log[2].key = Key("Backspace")
    /\ hist.log[1].cursor.y < Len(hist.log[1].rows)
    /\ hist.log[1].cursor.x < Len(hist.log[1].rows[hist.log[1].cursor.y + 1])
    /\ editor.document.rows = hist.log[1].rows
    /\ editor.cursor_position = hist.log[1].cursor

\* C11: when Document.save fails during Ctrl-S, with the name already set or
\* just entered in the save-as prompt, the status becomes "Error writing
\* file!" and the document (rows, file name, dirty flag) is what it was
\* before Ctrl-S, a dirty document still being dirty.
SaveFails ==
    \/ /\ editor.document.file_name.some
       /\ KeyCtrlS
       /\ written' = None
    \/ /\ pc = "prompt_read"
       /\ prompt_kind = "save"
       /\ result # <<>>
       /\ PromptExitWith(Char(NL), FALSE)

C11_FailedSaveKeepsDocument ==
    [][SaveFails =>
         /\ editor'.status_msg = StatusMsg("Error writing file!", <<>>, "")
         /\ editor'.document = editor.document]_vars

\* C12: every key read by prompt has its outcome.  Esc returns none whatever
\* was typed; Enter returns none when the accumulated string is empty and the
\* string otherwise; a character that is not a control character is appended,
\* Backspace takes the last character off, and every other key leaves the
\* string as it is; no key ends prompt in another way.
AllButLast(s) == IF s = <<>> THEN s ELSE SubSeq(s, 1, Len(s) - 1)

Accumulated(s, key) ==
    IF key.k = "Backspace" THEN AllButLast(s)
    ELSE IF key.k = "Char" /\ key.c \notin {NL, TAB} THEN Append(s, key.c)
    ELSE s

Returns(ret) ==
    \E write_ok \in BOOLEAN :
        Return([editor EXCEPT !.status_msg = StatusMsg("", <<>>, "")], ret, write_ok)

C12_PromptReturn ==
    [][pc = "prompt_read" =>
         /\ (\E write_ok \in BOOLEAN : PromptExitWith(Key("Esc"), write_ok)) => Returns(None)
         /\ (\E write_ok \in BOOLEAN : PromptExitWith(Char(NL), write_ok))
               => Returns(IF result = <<>> THEN None ELSE Some(result))
         /\ \A key \in PromptKeys : PromptKeyWith(key) => result' = Accumulated(result, key)
         /\ pc' \in {"prompt_read", "prompt_refresh", "refresh"}]_vars

\* C13: a terminal I/O failure in the main loop ends the run through die, and
\* nothing is processed after it; a terminal I/O failure inside a prompt
\* either does the same or leaves a status message about the operation it
\* aborted, not the line of the prompt it interrupted.
PromptLines == {prompt_label("save"), prompt_label("search")}

C13_IoFailureFatalOrShown ==
    [][/\ Die => pc' = "died"
       /\ pc = "died" => pc' = "died"
       /\ PromptIoError =>
            \/ pc' = "died"
            \/ editor'.status_msg.pre \notin PromptLines \cup {""}]_vars

\* C14: Enter on a non-empty query in the Ctrl-F prompt: when the document
\* holds the query, the cursor is on the first character of its first match,
\* inside the viewport, and no failure is reported; when it does not, the
\* status becomes "Search for '<query>' failed".
MatchAt(rows, query, at) ==
    /\ at.y < Len(rows)
    /\ at.x + Len(query) <= Len(rows[at.y + 1])
    /\ SubSeq(rows[at.y + 1], at.x + 1, at.x + Len(query)) = query

Before(a, b) == a.y < b.y \/ (a.y = b.y /\ a.x < b.x)

Places(rows) ==
    UNION {{Position(x, y) : x \in 0 .. Len(rows[y + 1])} : y \in 0 .. (Len(rows) - 1)}

FirstMatch(rows, query, at) ==
    /\ MatchAt(rows, query, at)
    /\ \A other \in Places(rows) : MatchAt(rows, query, other) => ~Before(other, at)

SearchFailed(query) == StatusMsg("Search for '", query, "' failed")

C14_SearchCommit ==
    [][(/\ pc = "prompt_read"
        /\ prompt_kind = "search"
        /\ result # <<>>
        /\ \E write_ok \in BOOLEAN : PromptExitWith(Char(NL), write_ok))
       => IF \E at \in Places(editor.document.rows) : MatchAt(editor.document.rows, result, at)
          THEN /\ FirstMatch(editor.document.rows, result, editor'.cursor_position)
               /\ InWindow(editor')
               /\ editor'.status_msg = StatusMsg("", <<>>, "")
          ELSE editor'.status_msg = SearchFailed(result)]_vars

\* the query "a" was committed on a document without "a"
C14_Witness ==
    /\ pc = "refresh"
    /\ editor.status_msg = SearchFailed(<<"a">>)
    /\ editor.document.rows # <<>>
    /\ ~\E at \in Places(editor.document.rows) : MatchAt(editor.document.rows, <<"a">>, at)

\* C15: a Ctrl-F search only goes forward from the cursor it started at: no
\* step of the search with a query that is not empty, live or on commit,
\* leaves the cursor on a match before that position, and a query whose only
\* matches lie before it fails.
InSearch == pc \in {"prompt_refresh", "prompt_read"} /\ prompt_kind = "search"

SearchStart == LastKey.cursor

OnlyBefore(rows, query, start) ==
    /\ \E at \in Places(rows) : MatchAt(rows, query, at)
    /\ \A at \in Places(rows) : MatchAt(rows, query, at) => Before(at, start)

C15_SearchForwardOnly ==
    [][InSearch =>
         /\ (IF pc' = "refresh" THEN result ELSE result') # <<>>
               => ~Before(editor'.cursor_position, SearchStart)
         /\ (/\ result # <<>>
             /\ \E write_ok \in BOOLEAN : PromptExitWith(Char(NL), write_ok)
             /\ OnlyBefore(editor.document.rows, result, SearchStart))
            => editor'.status_msg = SearchFailed(result)]_vars

\* what is left of rows when the character in front of column x of row y, or
\* for column 0 the line break in front of row y, is taken out
WithoutAt(s, i) == SubSeq(s, 1, i - 1) \o SubSeq(s, i + 1, Len(s))
WithoutCharBefore(rows, x, y) == [rows EXCEPT ![y + 1] = WithoutAt(@, x)]
WithoutBreakBefore(rows, y) ==
    SubSeq(rows, 1, y - 1) \o <<rows[y] \o rows[y + 1]>> \o SubSeq(rows, y + 2, Len(rows))
WhereLeftPuts(rows, c) ==
    IF c.x > 0 THEN Position(c.x - 1, c.y) ELSE Position(Len(rows[c.y]), c.y - 1)
AfterBackspace == Len(hist.log) > 0 /\ LastKey.key = Key("Backspace")
AtOrigin(c) == c.x = 0 /\ c.y = 0

\* C16 (as stated): Backspace at (0, 0) changes nothing; at every other valid
\* cursor position, column 0 of the append position included, the cursor goes
\* where Left puts it and the document loses exactly one element there, the
\* character in front of the cursor or, at column 0, the line break in front
\* of the row: it is never only the cursor that moves.
C16_BackspaceAlwaysDeletes ==
    AfterBackspace =>
        LET c == LastKey.cursor
            rows == LastKey.rows
        IN  IF AtOrigin(c)
            THEN editor.cursor_position = c /\ editor.document.rows = rows
            ELSE /\ editor.cursor_position = WhereLeftPuts(rows, c)
                 /\ editor.document.rows # rows
                 /\ c.x > 0 => editor.document.rows = WithoutCharBefore(rows, c.x, c.y)
                 /\ c.x = 0 => Len(editor.document.rows) = Len(rows) - 1
                 /\ (c.x = 0 /\ c.y < Len(rows))
                       => editor.document.rows = WithoutBreakBefore(rows, c.y)

\* C16 (amended): the same at every valid cursor position on a row of the
\* document; at column 0 of the append position of a document that is not
\* empty the cursor goes to the end of the last row and the rows stay as
\* they were.
C16_BackspaceDeletesOnARow ==
    AfterBackspace =>
        LET c == LastKey.cursor
            rows == LastKey.rows
        IN  IF AtOrigin(c)
            THEN editor.cursor_position = c /\ editor.document.rows = rows
            ELSE /\ editor.cursor_position = WhereLeftPuts(rows, c)
                 /\ c.y < Len(rows) => editor.document.rows # rows
                 /\ c.x > 0 => editor.document.rows = WithoutCharBefore(rows, c.x, c.y)
                 /\ (c.x = 0 /\ c.y < Len(rows))
                       => editor.document.rows = WithoutBreakBefore(rows, c.y)
                 /\ c.y = Len(rows) => c.x = 0 /\ editor.document.rows = rows

\* Backspace at column 0 of the second of two rows has joined it onto a
\* first row that is not empty
C16_Witness ==
    /\ AfterBackspace
    /\ LastKey.cursor = Position(0, 1)
    /\ Len(LastKey.rows) = 2
    /\ LastKey.rows[1] # <<>>
    /\ editor.document.rows = <<LastKey.rows[1] \o LastKey.rows[2]>>
    /\ editor.cursor_position = Position(Len(LastKey.rows[1]), 0)

\* C17: Backspace in a prompt never fails and removes exactly the last
\* character of the accumulated input, also when that character is encoded
\* in more than one byte; on an empty input it changes nothing.
C17_PromptBackspace ==
    pc = "prompt_read" =>
        /\ ~prompt_backspace_panics(result)
        /\ prompt_backspace(result) = AllButLast(result)
        /\ result = <<>> => prompt_backspace(result) = <<>>

\* C18: an open prompt is left only by Enter, Esc or a terminal I/O error.
\* Every other key keeps it open, leaves shld_quit, the quit counter, the
\* rows and the dirty flag alone, and is followed by exactly one call of the
\* callback with the input accumulated so far; Enter and Esc end the prompt
\* without a call of the callback.
InPrompt == pc \in {"prompt_refresh", "prompt_read"}

CallbackOnce(self, kind, s) == IF kind = "search" THEN search_callback(self, s) ELSE self

KeyKeepsPrompt ==
    \A key \in PromptKeys :
        PromptKeyWith(key) =>
            /\ pc' = "prompt_refresh" /\ prompt_kind' = prompt_kind
            /\ editor'.shld_quit = editor.shld_quit
            /\ editor'.quit_times = editor.quit_times
            /\ editor'.document = editor.document
            /\ editor'.cursor_position
                  = CallbackOnce(editor, prompt_kind, result').cursor_position
            /\ editor'.offset = CallbackOnce(editor, prompt_kind, result').offset

ExitWithoutCallback ==
    /\ (\E write_ok \in BOOLEAN : PromptExitWith(Key("Esc"), write_ok))
          => editor'.cursor_position = editor.cursor_position
    /\ (result = <<>> /\ \E write_ok \in BOOLEAN : PromptExitWith(Char(NL), write_ok))
          => editor'.cursor_position = editor.cursor_position

C18_PromptLeftOnlyByEnterEsc ==
    [][InPrompt =>
         /\ InPrompt' \/ PromptExit \/ PromptIoError
         /\ KeyKeepsPrompt
         /\ ExitWithoutCallback]_vars

\* C19: the number of the quit warning is accurate. When a Ctrl-Q on a dirty
\* document sets the status to the warning with number N and only Ctrl-Q is
\* pressed from then on, with the document still dirty, the editor is not
\* quitting after fewer than N further presses and is quitting after the
\* N-th.
StatusAfter(i) == IF i < Len(hist.log) THEN hist.log[i + 1].status ELSE editor.status_msg

OnlyCtrlQFrom(i) == \A j \in i .. Len(hist.log) : hist.log[j].key = Key("CtrlQ")

C19_WarningNumberAccurate ==
    \A i \in 1 .. Len(hist.log) : \A n \in 1 .. QUIT_TIMES :
        (/\ OnlyCtrlQFrom(i)
         /\ Dirty
         /\ hist.log[i].status # Warning(n)
         /\ StatusAfter(i) = Warning(n))
        => /\ Len(hist.log) - i <= n
           /\ Len(hist.log) - i < n => ~editor.shld_quit
           /\ Len(hist.log) - i = n => editor.shld_quit

\* the warning with QUIT_TIMES was shown and QUIT_TIMES further presses of
\* Ctrl-Q on the dirty document have been made: quitting
C19_Witness ==
    /\ Len(hist.log) = QUIT_TIMES + 1
    /\ OnlyCtrlQFrom(1)
    /\ Dirty
    /\ hist.log[1].status # Warning(QUIT_TIMES)
    /\ StatusAfter(1) = Warning(QUIT_TIMES)
    /\ editor.shld_quit

\* C20: incremental search does not restore the cursor. Each key of a Ctrl-F
\* prompt puts the cursor on the first match of the query typed so far, in
\* the window, or leaves cursor and offset alone when there is none; Esc,
\* and Enter on a query without a match, leave cursor and offset where the
\* last key with a match put them; rows, file name and dirty flag are the
\* same throughout the search.
Found(rows, query) == \E at \in Places(rows) : MatchAt(rows, query, at)

ViewKept == /\ editor'.cursor_position = editor.cursor_position
            /\ editor'.offset = editor.offset

C20_SearchDoesNotRestore ==
    [][InSearch =>
         /\ editor'.document = editor.document
         /\ (pc = "prompt_read" /\ pc' = "prompt_refresh") =>
               IF Found(editor.document.rows, result')
               THEN /\ FirstMatch(editor.document.rows, result', editor'.cursor_position)
                    /\ InWindow(editor')
               ELSE ViewKept
         /\ (pc = "prompt_refresh" /\ pc' = "prompt_read") => ViewKept
         /\ (/\ pc = "prompt_read" /\ pc' = "refresh"
             /\ \E write_ok \in BOOLEAN : PromptExitWith(Key("Esc"), write_ok)) => ViewKept
         /\ (/\ pc = "prompt_read" /\ pc' = "refresh"
             /\ ~Found(editor.document.rows, result)
             /\ \E write_ok \in BOOLEAN : PromptExitWith(Char(NL), write_ok)) => ViewKept]_vars

\* a search has ended with a query that was not found, and the cursor is
\* not where it was when Ctrl-F was pressed but on an "a" of the document
C20_Witness ==
    /\ pc = "refresh"
    /\ Len(hist.log) > 0
    /\ LastKey.key = Key("CtrlF")
    /\ editor.status_msg.pre = "Search for '"
    /\ editor.cursor_position # SearchStart
    /\ MatchAt(editor.document.rows, <<"a">>, editor.cursor_position)

====
